---- MODULE Spec2Model ----
(***************************************************************************)
(* Model of service/models.py: JSONManifest (flatten, rule matching) and   *)
(* JSONFactory (parse_path, insert_value, insert_query, get_projection).   *)
(*                                                                         *)
(* Python strings are sequences of one-character strings, so that the      *)
(* formatting done by flatten and the parsing done by insert_value and     *)
(* parse_path are computed character by character.  A JSON value is a      *)
(* record [t, v]: t is the Python type ("dict", "list", "str", "int",      *)
(* "bool", "none") and v its content.  A dict is the sequence of its       *)
(* <<key, value>> items in insertion order; a list is a sequence of values.*)
(***************************************************************************)
EXTENDS Integers, Sequences, FiniteSets, TLC

VARIABLES
    data,      \* JSONManifest._data: the source document
    rules,     \* JSONManifest._rules: sequence of [source, target]
    fdata,     \* JSONManifest._fdata: dict(flatten(data)), a dict value
    pos,       \* number of rules (or flattened pairs) already consumed
    qpos,      \* get_projection: number of deferred pairs already inserted
    yielded,   \* the (target, value) pairs JSONManifest.__iter__ has yielded
    queries,   \* get_projection: the deferred (path, value) pairs
    record,    \* the record being built (mutated in place)
    pre,       \* the record as it was before the last insert call
    op,        \* the last insert call: [name, path, value]
    calls,     \* get_projection: the insert calls made so far, in order
    err,       \* the exception the last call raised, "" when none
    pc         \* position of the modelled caller

vars == <<data, rules, fdata, pos, qpos, yielded, queries, record, pre, op, calls,
          err, pc>>

----------------------------------------------------------------------------
(* Characters and Python str methods                                       *)

Digits == <<"0", "1", "2", "3", "4", "5", "6", "7", "8", "9">>

Lower == {"a", "b", "c", "d", "e", "f", "g", "h", "i", "j", "k", "l", "m",
          "n", "o", "p", "q", "r", "s", "t", "u", "v", "w", "x", "y", "z"}

Upper == {"A", "B", "C", "D", "E", "F", "G", "H", "I", "J", "K", "L", "M",
          "N", "O", "P", "Q", "R", "S", "T", "U", "V", "W", "X", "Y", "Z"}

\* regex \d
IsDigit(c) == \E i \in 1..10 : Digits[i] = c

\* regex \w
IsWord(c) == c \in Lower \/ c \in Upper \/ IsDigit(c) \/ c = "_"

\* regex \s, and the characters str.strip() removes
IsSpace(c) == c \in {" ", "\t", "\n", "\r"}

DigitVal(c) == (CHOOSE i \in 1..10 : Digits[i] = c) - 1

\* int(s) for a string of decimal digits
RECURSIVE ToInt(_)
ToInt(s) ==
    IF s = <<>> THEN 0
    ELSE 10 * ToInt(SubSeq(s, 1, Len(s) - 1)) + DigitVal(s[Len(s)])

\* str(n) for n >= 0
RECURSIVE ToStr(_)
ToStr(n) ==
    IF n < 10 THEN <<Digits[n + 1]>>
    ELSE ToStr(n \div 10) \o <<Digits[(n % 10) + 1]>>

\* whether sub occurs in s at position i
OccursAt(s, sub, i) ==
    /\ i >= 1
    /\ i + Len(sub) - 1 <= Len(s)
    /\ \A j \in 1..Len(sub) : s[i + j - 1] = sub[j]

\* str.find from position i: first position >= i where sub occurs, 0 if none
RECURSIVE FindFrom(_, _, _)
FindFrom(s, sub, i) ==
    IF i + Len(sub) - 1 > Len(s) THEN 0
    ELSE IF OccursAt(s, sub, i) THEN i
    ELSE FindFrom(s, sub, i + 1)

\* s.split(sep) for a non-empty separator
RECURSIVE Split(_, _)
Split(s, sep) ==
    LET Cut(i) ==
            IF i = 0 THEN <<s>>
            ELSE <<SubSeq(s, 1, i - 1)>>
                 \o Split(SubSeq(s, i + Len(sep), Len(s)), sep)
    IN  Cut(FindFrom(s, sep, 1))

\* sep.join(parts)
RECURSIVE Join(_, _)
Join(parts, sep) ==
    IF parts = <<>> THEN <<>>
    ELSE IF Len(parts) = 1 THEN parts[1]
    ELSE parts[1] \o sep \o Join(Tail(parts), sep)

\* s.replace(sub, rep) for a non-empty sub
RECURSIVE Replace(_, _, _)
Replace(s, sub, rep) ==
    LET Cut(i) ==
            IF i = 0 THEN s
            ELSE SubSeq(s, 1, i - 1) \o rep
                 \o Replace(SubSeq(s, i + Len(sub), Len(s)), sub, rep)
    IN  Cut(FindFrom(s, sub, 1))

\* s.strip()
RECURSIVE Strip(_)
Strip(s) ==
    IF s = <<>> THEN s
    ELSE IF IsSpace(s[1]) THEN Strip(Tail(s))
    ELSE IF IsSpace(s[Len(s)]) THEN Strip(SubSeq(s, 1, Len(s) - 1))
    ELSE s

\* membership in a regex character class: "w" is \w, "d" is \d, "s" is \s,
\* "v" is [\w\.\s-]
InClass(c, cls) ==
    CASE cls = "w" -> IsWord(c)
      [] cls = "d" -> IsDigit(c)
      [] cls = "s" -> IsSpace(c)
      [] cls = "v" -> IsWord(c) \/ IsSpace(c) \/ c = "." \/ c = "-"

\* end of the longest run of class cls starting at i: the first position >= i
\* whose character is not in the class (Len(s) + 1 if there is none)
RECURSIVE RunEnd(_, _, _)
RunEnd(s, i, cls) ==
    IF i > Len(s) THEN i
    ELSE IF ~InClass(s[i], cls) THEN i
    ELSE RunEnd(s, i + 1, cls)

----------------------------------------------------------------------------
(* Python values                                                           *)

PStr(s) == [t |-> "str", v |-> s]

PInt(n) == [t |-> "int", v |-> n]

PBool(b) == [t |-> "bool", v |-> b]

PNone == [t |-> "none", v |-> <<>>]

PDict(kv) == [t |-> "dict", v |-> kv]

PList(xs) == [t |-> "list", v |-> xs]

EmptyDict == PDict(<<>>)

EmptyList == PList(<<>>)

\* the dict key None (no string of characters equals it)
NoneKey == <<"None">>

\* key in d
Has(d, k) == \E i \in 1..Len(d.v) : d.v[i][1] = k

KeyPos(d, k) == CHOOSE i \in 1..Len(d.v) : d.v[i][1] = k

\* d[k], for a key that is present
Get(d, k) == d.v[KeyPos(d, k)][2]

\* d[k] = x: an existing key keeps its place, a new key goes last
Put(d, k, x) ==
    IF Has(d, k)
    THEN PDict([d.v EXCEPT ![KeyPos(d, k)] = <<k, x>>])
    ELSE PDict(Append(d.v, <<k, x>>))

\* dict(pairs): later pairs overwrite earlier ones with the same key
RECURSIVE DictOf(_)
DictOf(pairs) ==
    IF pairs = <<>> THEN EmptyDict
    ELSE Put(DictOf(SubSeq(pairs, 1, Len(pairs) - 1)),
             pairs[Len(pairs)][1], pairs[Len(pairs)][2])

\* xs[i] = x on a list, i counted from 0
SetAt(l, i, x) == PList([l.v EXCEPT ![i + 1] = x])

\* n times l.append(None): the gap filled with None, not with x
RECURSIVE PadWithNone(_, _, _)
PadWithNone(l, n, x) ==
    IF n <= 0 THEN l ELSE PadWithNone(PList(Append(l.v, PNone)), n - 1, x)

\* n times l.append(x)
RECURSIVE Pad(_, _, _)
Pad(l, n, x) == IF n <= 0 THEN l ELSE Pad(PList(Append(l.v, x)), n - 1, x)

\* a == b on Python values: dicts compare as mappings, lists by position
RECURSIVE PyEq(_, _)
PyEq(a, b) ==
    /\ a.t = b.t
    /\ IF a.t = "dict"
       THEN /\ Len(a.v) = Len(b.v)
            /\ \A i \in 1..Len(a.v) :
                   /\ Has(b, a.v[i][1])
                   /\ PyEq(a.v[i][2], Get(b, a.v[i][1]))
       ELSE IF a.t = "list"
       THEN /\ Len(a.v) = Len(b.v)
            /\ \A i \in 1..Len(a.v) : PyEq(a.v[i], b.v[i])
       ELSE a.v = b.v

----------------------------------------------------------------------------
(* JSONManifest                                                            *)

\* flatten.iter_child: the (path, value) pairs of cdata under the path keys,
\* in the order the generator yields them
RECURSIVE iter_child(_, _), iter_child_from(_, _, _)
iter_child(cdata, keys) ==
    IF cdata.t \in {"dict", "list"}
    THEN iter_child_from(cdata, keys, 1)
    ELSE << <<Join(keys, <<".">>), cdata>> >>

\* the pairs of the items (of a dict) or elements (of a list) from position i on
iter_child_from(cdata, keys, i) ==
    IF i > Len(cdata.v) THEN <<>>
    ELSE IF cdata.t = "dict"
    THEN iter_child(cdata.v[i][2], Append(keys, cdata.v[i][1]))
         \o iter_child_from(cdata, keys, i + 1)
    ELSE LET key == keys[Len(keys)] \o <<"[">> \o ToStr(i - 1) \o <<"]">>
         IN  iter_child(cdata.v[i], Append(SubSeq(keys, 1, Len(keys) - 1), key))
             \o iter_child_from(cdata, keys, i + 1)

\* JSONManifest.flatten(data)
flatten(d) == iter_child(d, << <<"$">> >>)

\* JSONManifest.__init__: self._fdata
FlatData(d) == DictOf(flatten(d))

\* the inner loop yielding the rule's source in place of its target
RECURSIVE RuleYieldSource(_, _, _)
RuleYieldSource(rule, fd, i) ==
    IF i > Len(fd.v) THEN <<>>
    ELSE (IF rule.source = fd.v[i][1]
          THEN << <<rule.source, fd.v[i][2]>> >>
          ELSE <<>>)
         \o RuleYieldSource(rule, fd, i + 1)

\* JSONManifest.__iter__ for one rule: the pairs the inner loop yields
RECURSIVE RuleYield(_, _, _)
RuleYield(rule, fd, i) ==
    IF i > Len(fd.v) THEN <<>>
    ELSE (IF rule.source = fd.v[i][1]
          THEN << <<rule.target, fd.v[i][2]>> >>
          ELSE <<>>)
         \o RuleYield(rule, fd, i + 1)

----------------------------------------------------------------------------
(* JSONFactory.parse_path                                                  *)

\* a value of a condition, _vals, matched at position i: the position after it,
\* 0 when it does not match
MatchVals(s, i) ==
    LET Quoted(e) ==
            IF e > i + 1 /\ e <= Len(s) /\ s[e] \in {"'", "\""} THEN e + 1 ELSE 0
    IN  IF i > Len(s) THEN 0
        ELSE IF s[i] \in {"'", "\""} THEN Quoted(RunEnd(s, i + 1, "v"))
        ELSE IF IsDigit(s[i]) THEN RunEnd(s, i, "d")
        ELSE IF OccursAt(s, <<"t", "r", "u", "e">>, i) THEN i + 4
        ELSE IF OccursAt(s, <<"f", "a", "l", "s", "e">>, i) THEN i + 5
        ELSE IF OccursAt(s, <<"n", "u", "l", "l">>, i) THEN i + 4
        ELSE 0

\* one condition, _query = @\.\w+\s*==\s*_vals, matched at position i
MatchCond(s, i) ==
    LET AfterSpaces(e) ==
            IF ~OccursAt(s, <<"=", "=">>, e) THEN 0
            ELSE MatchVals(s, RunEnd(s, e + 2, "s"))
        AfterField(w) ==
            IF w = i + 2 THEN 0 ELSE AfterSpaces(RunEnd(s, w, "s"))
    IN  IF ~OccursAt(s, <<"@", ".">>, i) THEN 0
        ELSE AfterField(RunEnd(s, i + 2, "w"))

\* (?:\s*&&\s*_query)* from position i: the position after the last
\* repetition that matches
RECURSIVE MatchMoreConds(_, _)
MatchMoreConds(s, i) ==
    LET Repeat(e) == IF e = 0 THEN i ELSE MatchMoreConds(s, e)
        AfterSpaces(a) ==
            IF OccursAt(s, <<"&", "&">>, a)
            THEN MatchCond(s, RunEnd(s, a + 2, "s"))
            ELSE 0
    IN  Repeat(AfterSpaces(RunEnd(s, i, "s")))

\* _stmt_query matched at position i: the position after its ")"
MatchQuery(s, i) ==
    LET Close(e) == IF e # 0 /\ e <= Len(s) /\ s[e] = ")" THEN e + 1 ELSE 0
        More(c) == IF c = 0 THEN 0 ELSE MatchMoreConds(s, c)
    IN  IF ~OccursAt(s, <<"?", "(">>, i) THEN 0
        ELSE Close(More(MatchCond(s, i + 2)))

\* the repeated group (?:\[(?:index|query)\])* from position i, seg holding
\* the groups captured so far; a group keeps the capture of its last match
RECURSIVE MatchBrackets(_, _, _)
MatchBrackets(s, i, seg) ==
    LET Bracket(d, q) ==
            IF d > i + 1 /\ d <= Len(s) /\ s[d] = "]"
            THEN MatchBrackets(s, d + 1,
                     [seg EXCEPT !.index = PStr(SubSeq(s, i + 1, d - 1))])
            ELSE IF q # 0 /\ q <= Len(s) /\ s[q] = "]"
            THEN MatchBrackets(s, q + 1,
                     [seg EXCEPT !.query = PStr(SubSeq(s, i + 1, q - 1))])
            ELSE [seg EXCEPT !.end = i]
    IN  IF i > Len(s) THEN [seg EXCEPT !.end = i]
        ELSE IF s[i] # "[" THEN [seg EXCEPT !.end = i]
        ELSE Bracket(RunEnd(s, i + 1, "d"), MatchQuery(s, i + 1))

\* RE_PAT matched at position i: [ok, key, index, query, end]; index and query
\* are PNone when the group did not take part in the match
MatchAt(s, i) ==
    LET AfterKey(w) ==
            IF s[i] = "." /\ w > i + 1
            THEN MatchBrackets(s, w,
                     [ok |-> TRUE, key |-> SubSeq(s, i + 1, w - 1),
                      index |-> PNone, query |-> PNone, end |-> w])
            ELSE [ok |-> FALSE, key |-> <<>>, index |-> PNone, query |-> PNone,
                  end |-> i]
    IN  AfterKey(RunEnd(s, i + 1, "w"))

\* RE_PAT.findall(path) from position i: the non-overlapping matches, left to
\* right, the text between them skipped
RECURSIVE FindAll(_, _)
FindAll(s, i) ==
    LET Found(m) ==
            IF m.ok
            THEN <<[key |-> m.key, index |-> m.index, query |-> m.query]>>
                 \o FindAll(s, m.end)
            ELSE FindAll(s, i + 1)
    IN  IF i > Len(s) THEN <<>> ELSE Found(MatchAt(s, i))

\* JSONFactory.parse_path(path)
parse_path(path) == FindAll(path, 1)

---------------------------------------------------------------------------------------------------------------------------------------------------
(* JSONFactory.insert_value                                                *)

\* A call's outcome: ref is the referenced object as the call left it (it is
\* mutated in place, also when the call raises), err the exception raised
\* ("" when none), none whether the call returned None.
Outcome(ref, e) == [ref |-> ref, err |-> e, none |-> FALSE]

\* reference = {} if reference is None else reference
OrEmptyDict(reference) == IF reference = PNone THEN EmptyDict ELSE reference

\* the outcome of an _iter given None: the {} it worked on is a new object,
\* which the caller sees only as the value returned
FromNone(ref0, out) ==
    IF ref0 = PNone /\ (out.err # "" \/ out.none)
    THEN [out EXCEPT !.ref = PNone]
    ELSE out

\* re.search(r"\[(?P<index>\d+)\]", key) from position i: <<start, end>> of
\* the leftmost match, <<>> when there is none
RECURSIVE SearchIndex(_, _)
SearchIndex(key, i) ==
    LET AfterDigits(d) ==
            IF key[i] = "[" /\ d > i + 1 /\ d <= Len(key) /\ key[d] = "]"
            THEN <<i, d>>
            ELSE SearchIndex(key, i + 1)
    IN  IF i > Len(key) THEN <<>> ELSE AfterDigits(RunEnd(key, i + 1, "d"))

\* insert_value._get_index(key): the tuple it returns
_get_index(key) ==
    LET Matched(m) ==
            IF m # <<>>
            THEN <<Replace(key, SubSeq(key, m[1], m[2]), <<>>),
                   PInt(ToInt(SubSeq(key, m[1] + 1, m[2] - 1)))>>
            ELSE <<NoneKey, PNone>>
    IN  Matched(SearchIndex(key, 1))

\* truth value of a tuple: a tuple is true unless it is empty
TupleTruth(tup) == Len(tup) # 0

\* if not key in reference: reference[key] = [], on a dict
EnsureList(reference, key) ==
    IF Has(reference, key) THEN reference ELSE Put(reference, key, EmptyList)

\* reference[key][at] = c.ref, raising what the descent c raised
StoreAt(reference, key, l, at, c) == Outcome(Put(reference, key, SetAt(l, at, c.ref)), c.err)

RECURSIVE insert_value_iter(_, _, _), insert_query_iter(_, _, _)

\* _iter(keys, ref) if keys else value, in insert_value
ValueDescend(keys, ref, value) ==
    IF keys = <<>> THEN Outcome(value, "") ELSE insert_value_iter(keys, ref, value)

\* _iter(keys, ref) if keys else value, in insert_query
QueryDescend(keys, ref, value) ==
    IF keys = <<>> THEN Outcome(value, "") ELSE insert_query_iter(keys, ref, value)

\* _iter(keys, ref) if keys else value, the _iter being that of method
Descend(method, keys, ref, value) ==
    IF method = "insert_value" THEN ValueDescend(keys, ref, value)
    ELSE QueryDescend(keys, ref, value)

\* the index branch of insert_value._iter and insert_query._iter once key is
\* in the dict reference: pad reference[key] with {} up to idx + 1 elements,
\* then store at idx what the descent makes of the element found there
IndexStore(method, reference, key, idx, keys, value) ==
    LET OnStr(e) == Outcome(reference, IF e = "" THEN "TypeError" ELSE e)
        OnList(padded) ==
            StoreAt(reference, key, padded, idx.v,
                    Descend(method, keys, padded.v[idx.v + 1], value))
        OnCurrent(cur) ==
            IF cur.t \notin {"list", "dict", "str"}
            THEN Outcome(reference, "TypeError")
            ELSE IF idx.t # "int"
            THEN Outcome(reference, "TypeError")
            ELSE IF Len(cur.v) <= idx.v /\ cur.t # "list"
            THEN Outcome(reference, "AttributeError")
            ELSE IF cur.t = "dict"
            THEN Outcome(reference, "KeyError")
            ELSE IF cur.t = "str"
            THEN OnStr(Descend(method, keys, PStr(<<cur.v[idx.v + 1]>>), value).err)
            ELSE OnList(Pad(cur, idx.v + 1 - Len(cur.v), EmptyDict))
    IN  OnCurrent(Get(reference, key))

\* the plain-key branch of insert_value._iter and insert_query._iter:
\* ref = reference.get(key, {}), then reference[key] = what the descent makes
\* of ref; a default {} is attached only when the descent returns
PlainStore(method, reference, key, keys, value) ==
    LET Store(had, c) ==
            IF c.err = "" \/ had
            THEN Outcome(Put(reference, key, c.ref), c.err)
            ELSE Outcome(reference, c.err)
    IN  IF reference.t # "dict"
        THEN Outcome(reference, "AttributeError")
        ELSE IF Has(reference, key)
        THEN Store(TRUE, Descend(method, keys, Get(reference, key), value))
        ELSE Store(FALSE, Descend(method, keys, EmptyDict, value))

\* insert_value._iter(keys, reference), value being the closure's value
insert_value_iter(keys, ref0, value) ==
    LET OnKey(reference, index) ==
            IF TupleTruth(index)
            THEN IF reference.t # "dict"
                 THEN Outcome(reference, "TypeError")
                 ELSE IndexStore("insert_value", EnsureList(reference, index[1]),
                                 index[1], index[2], Tail(keys), value)
            ELSE PlainStore("insert_value", reference, Head(keys), Tail(keys), value)
    IN  IF keys = <<>>
        THEN FromNone(ref0, [ref |-> OrEmptyDict(ref0), err |-> "", none |-> TRUE])
        ELSE FromNone(ref0, OnKey(OrEmptyDict(ref0), _get_index(Head(keys))))

\* JSONFactory.insert_value(path, value, record)
insert_value(path, value, rec) ==
    LET Keys(path_keys) ==
            IF path_keys[1] = <<"$">> THEN Tail(path_keys) ELSE path_keys
    IN  insert_value_iter(Keys(Split(path, <<".">>)), rec, value)

----------------------------------------------------------------------------
(* JSONFactory.insert_query                                                *)

\* one side of a condition as insert_query._iter cleans it
CleanToken(tok) ==
    Strip(Replace(Replace(Replace(Strip(tok), <<"@", ".">>, <<>>),
                          <<"'">>, <<>>), <<"\"">>, <<>>))

\* the tuple made of one "&&"-separated part of the query
CondTuple(part) ==
    LET Clean(toks) == [i \in 1..Len(toks) |-> CleanToken(toks[i])]
    IN  Clean(Split(Strip(part), <<"=", "=">>))

\* conditions: the list of (field, literal text) tuples of a query string
Conditions(query) ==
    LET Tuples(parts) == [i \in 1..Len(parts) |-> CondTuple(parts[i])]
    IN  Tuples(Split(SubSeq(query, 3, Len(query) - 1), <<"&", "&">>))

\* dict(conditions): the element appended for a query no element satisfies
CondDict(conds) ==
    DictOf([i \in 1..Len(conds) |-> <<conds[i][1], PStr(conds[i][2])>>])

\* all(ele.get(k) == v for k, v in conditions) for a dict ele: the literal
\* text v is a str, so the comparison holds only for a str field equal to it
Satisfies(ele, conds) ==
    \A i \in 1..Len(conds) :
        /\ Has(ele, conds[i][1])
        /\ Get(ele, conds[i][1]) = PStr(conds[i][2])

\* indices: the (0-based) positions of the elements satisfying conds, from
\* position i (1-based) on
RECURSIVE Indices(_, _, _)
Indices(l, conds, i) ==
    IF i > Len(l.v) THEN <<>>
    ELSE (IF Satisfies(l.v[i], conds) THEN <<i - 1>> ELSE <<>>)
         \o Indices(l, conds, i + 1)

RECURSIVE Broadcast(_, _, _, _, _)

\* for idx in indices: reference[key][idx] = _iter(list(keys), ref) if keys
\* else value, from the i-th index on; the loop ends at the first exception
Broadcast(l, indices, i, keys, value) ==
    LET Stored(c) ==
            IF c.err # "" THEN Outcome(SetAt(l, indices[i], c.ref), c.err)
            ELSE Broadcast(SetAt(l, indices[i], c.ref), indices, i + 1, keys, value)
    IN  IF i > Len(indices) THEN Outcome(l, "")
        ELSE Stored(QueryDescend(keys, l.v[indices[i] + 1], value))

\* the query branch of insert_query._iter once the key is in the dict
\* reference; index is PNone or the int of the segment's index, keys the
\* segments left after this one
QueryStore(reference, key, index, conds, keys, value) ==
    LET Appended(l, n) == Pad(l, n, CondDict(conds))
        One(l, at) ==
            StoreAt(reference, key, l, at, QueryDescend(keys, l.v[at + 1], value))
        All(b) == Outcome(Put(reference, key, b.ref), b.err)
        OnIndices(cur, indices) ==
            IF index # PNone
            THEN IF Len(indices) <= index.v
                 THEN One(Appended(cur, index.v + 1 - Len(indices)),
                          Len(cur.v) + index.v - Len(indices))
                 ELSE One(cur, indices[index.v + 1])
            ELSE IF indices = <<>>
            THEN All(Broadcast(Appended(cur, 1), <<Len(cur.v)>>, 1, keys, value))
            ELSE All(Broadcast(cur, indices, 1, keys, value))
        OnCurrent(cur) ==
            IF cur.t \notin {"list", "dict", "str"}
            THEN Outcome(reference, "TypeError")
            ELSE IF cur.t # "list"
            THEN Outcome(reference, "AttributeError")
            ELSE IF \E i \in 1..Len(cur.v) : cur.v[i].t # "dict"
            THEN Outcome(reference, "AttributeError")
            ELSE OnIndices(cur, Indices(cur, conds, 1))
    IN  OnCurrent(Get(reference, key))

\* insert_query._iter(keys, reference), keys being parsed segments
insert_query_iter(keys, ref0, value) ==
    LET IntOf(index) == IF index # PNone THEN PInt(ToInt(index.v)) ELSE PNone
        OnSegment(reference, seg) ==
            IF seg.query # PNone
            THEN IF reference.t # "dict"
                 THEN Outcome(reference, "TypeError")
                 ELSE QueryStore(EnsureList(reference, seg.key), seg.key,
                                 IntOf(seg.index), Conditions(seg.query.v),
                                 Tail(keys), value)
            ELSE IF seg.index # PNone
            THEN IF reference.t # "dict"
                 THEN Outcome(reference, "TypeError")
                 ELSE IndexStore("insert_query", EnsureList(reference, seg.key),
                                 seg.key, IntOf(seg.index), Tail(keys), value)
            ELSE PlainStore("insert_query", reference, seg.key, Tail(keys), value)
    IN  IF keys = <<>> THEN Outcome(ref0, "IndexError")
        ELSE FromNone(ref0, OnSegment(OrEmptyDict(ref0), Head(keys)))

\* JSONFactory.insert_query(path, value, record)
insert_query(path, value, rec) == insert_query_iter(parse_path(path), rec, value)

----------------------------------------------------------------------------
(* Inputs: keys, scalars, paths, documents, rules                          *)

\* longest rule list of a manifest
MaxRules == 2

\* longest list inside a round-trip document
MaxLen == 2

\* largest literal index of a path
MaxIndex == 3

\* most insert calls a caller makes in a row
MaxCalls == 2

K_x == <<"x">>

K_a == <<"a">>

K_b == <<"b">>

K_n == <<"n">>

K_ab == <<"a", ".", "b">>

K_items == <<"i", "t", "e", "m", "s">>

K_tags == <<"t", "a", "g", "s">>

K_type == <<"t", "y", "p", "e">>

K_val == <<"v", "a", "l">>

K_out == <<"o", "u", "t">>

Scalars == {PInt(1), PStr(<<"a">>)}

\* "$" followed by "." and each segment
PathOf(segs) == Join(<< <<"$">> >> \o segs, <<".">>)

\* key[i]
Indexed(key, i) == key \o <<"[">> \o ToStr(i) \o <<"]">>

\* a literal as the path grammar writes it: a quoted string, an integer,
\* true, false or null
LitText(lit) ==
    CASE lit.t = "str" -> <<"'">> \o lit.v \o <<"'">>
      [] lit.t = "int" -> ToStr(lit.v)
      [] lit.t = "bool" -> IF lit.v THEN <<"t", "r", "u", "e">>
                           ELSE <<"f", "a", "l", "s", "e">>
      [] lit.t = "none" -> <<"n", "u", "l", "l">>

\* @.field==literal for each condition <<field, literal>>, joined by &&
CondsText(conds) ==
    Join([i \in 1..Len(conds) |->
              <<"@", ".">> \o conds[i][1] \o <<"=", "=">> \o LitText(conds[i][2])],
         <<"&", "&">>)

\* key[?(conditions)], followed by [index] unless index is -1
Queried(key, conds, index) ==
    key \o <<"[", "?", "(">> \o CondsText(conds) \o <<")", "]">>
        \o (IF index = -1 THEN <<>> ELSE <<"[">> \o ToStr(index) \o <<"]">>)

\* a dict of the items that are present: each option is <<>> or <<key, value>>
DictOfOptions(opts) == PDict(SelectSeq(opts, LAMBDA o : o # <<>>))

\* the source documents of the manifests: x present, a and "a.b" each absent
\* or present, "a.b" before or after a
Documents ==
    { DictOfOptions(<< <<K_x, PInt(5)>>, oab1, oa,
                       IF oab1 = <<>> THEN oab2 ELSE <<>> >>) :
        oa \in {<<>>, <<K_a, PDict(<< <<K_b, PInt(2)>> >>)>>,
                <<K_a, PList(<<PInt(1), PStr(<<"a">>)>>)>>},
        oab1 \in {<<>>, <<K_ab, PInt(1)>>},
        oab2 \in {<<>>, <<K_ab, PInt(1)>>} }

Sources ==
    { PathOf(<<K_x>>), PathOf(<<K_a, K_b>>), PathOf(<<Indexed(K_a, 1)>>),
      PathOf(<< <<"m", "i", "s", "s">> >>) }

TypeIsA == << <<K_type, PStr(<<"a">>)>> >>

\* targets without a query component: a plain key, a key with an index
PlainTargets ==
    { PathOf(<<K_out>>), PathOf(<<Indexed(K_items, 1)>>),
      PathOf(<<Indexed(K_out, 0)>>) }

\* targets with a query component, without and with an index
QueryTargets ==
    { PathOf(<<Queried(K_items, TypeIsA, -1), K_val>>),
      PathOf(<<Queried(K_items, TypeIsA, 1), K_val>>) }

Targets == PlainTargets \cup QueryTargets

Rules == [source : Sources, target : Targets]

\* the rule lists of at most MaxRules rules
RuleLists == UNION { [1..n -> Rules] : n \in 0..MaxRules }

\* the non-empty lists of at most MaxLen elements of S
ListsOf(S) == UNION { [1..n -> S] : n \in 1..MaxLen }

\* objects, arrays and scalars without empty containers, one level deep
Inner ==
    Scalars \cup { PDict(<< <<K_b, v>> >>) : v \in Scalars }
            \cup { PList(l) : l \in ListsOf(Scalars) }

\* the documents rebuilt from their flattening: {"a": v}, v up to two levels
RoundTripDocs ==
    { PDict(<< <<K_a, v>> >>) :
        v \in Inner \cup { PDict(<< <<K_b, w>> >>) : w \in Inner }
                    \cup { PList(l) : l \in ListsOf(Inner) } }

\* the records insert_value is called on
ValueRecords ==
    { EmptyDict,
      PDict(<< <<K_items, PList(<<PInt(7), PInt(8)>>)>> >>),
      PDict(<< <<K_a, PDict(<< <<K_x, PInt(7)>> >>)>>, <<K_out, PInt(9)>> >>) }

\* the paths insert_value is called with: key[i], plain keys, mixed, "$"
ValuePaths ==
    { PathOf(<<Indexed(k, i)>>) : k \in {K_items, K_a}, i \in 0..MaxIndex }
    \cup { PathOf(<<K_a>>), PathOf(<<K_a, K_b>>), PathOf(<<K_out, K_b>>),
           PathOf(<<Indexed(K_items, 1), K_b>>),
           PathOf(<<Indexed(K_a, 0), Indexed(K_b, 1)>>), <<"$">> }

\* the records insert_query is called on: tags absent, or a list of objects
QueryRecords ==
    { EmptyDict,
      PDict(<< <<K_tags, PList(<<
          PDict(<< <<K_type, PStr(<<"a">>)>>, <<K_val, PInt(1)>> >>),
          PDict(<< <<K_type, PStr(<<"b">>)>>, <<K_val, PInt(1)>> >>),
          PDict(<< <<K_type, PStr(<<"a">>)>>, <<K_val, PInt(2)>> >>),
          PDict(<< <<K_type, PStr(<<"a">>)>> >>) >>)>> >>),
      PDict(<< <<K_tags, PList(<<
          PDict(<< <<K_n, PInt(1)>>, <<K_val, PInt(1)>> >>),
          PDict(<< <<K_n, PBool(TRUE)>> >>),
          PDict(<< <<K_n, PNone>>, <<K_type, PStr(<<"a">>)>> >>),
          PDict(<< <<K_n, PInt(1)>>, <<K_type, PStr(<<"a">>)>> >>) >>)>> >>) }

\* the conditions of the queries: each a list of <<field, literal>>, the
\* literal of every form the grammar allows
QueryConds ==
    { TypeIsA,
      << <<K_n, PInt(1)>> >>,
      << <<K_n, PBool(TRUE)>> >>,
      << <<K_n, PNone>> >>,
      << <<K_type, PStr(<<"a">>)>>, <<K_n, PInt(1)>> >> }

\* a query on tags: conds, index (-1 when there is none) and the segments
\* after the query segment (none, or val)
QueryDescs ==
    [conds : QueryConds, index : -1..(MaxIndex - 1), tail : {<<>>, <<K_val>>}]

QueryPathOf(d) == PathOf(<<Queried(K_tags, d.conds, d.index)>> \o d.tail)

\* paths with a part that matches no form of the grammar: text after a
\* segment, a bracket that is neither index nor query, a condition with "="
MalformedPaths ==
    { PathOf(<<Queried(K_tags, TypeIsA, -1), K_val \o <<"-", "x">> >>),
      PathOf(<<K_tags \o <<"[", "x", "]">>, K_val>>),
      PathOf(<<K_tags \o <<"[", "?", "(", "@", ".", "n", "=", "1", ")", "]">>,
               K_val>>) }

QueryPaths == { QueryPathOf(d) : d \in QueryDescs } \cup MalformedPaths

-----
(* JSONFactory.get_projection over a JSONManifest                          *)

NoCall == [name |-> "none", path |-> <<>>, value |-> PNone]

\* '?' not in path: the test of the deferral inverted
NoQuestionMark(path) == FindFrom(path, <<"?">>, 1) = 0

\* '?' in path
HasQuestionMark(path) == FindFrom(path, <<"?">>, 1) # 0

Init ==
    /\ data \in Documents
    /\ rules \in RuleLists
    /\ fdata = PNone
    /\ pos = 0
    /\ qpos = 0
    /\ yielded = <<>>
    /\ queries = <<>>
    /\ record = EmptyDict
    /\ pre = EmptyDict
    /\ op = NoCall
    /\ calls = <<>>
    /\ err = ""
    /\ pc = "new"

\* JSONManifest.__init__: flatten the source data once
ManifestInit ==
    /\ pc = "new"
    /\ fdata' = FlatData(data)
    /\ pc' = "iterate"
    /\ UNCHANGED <<data, rules, pos, qpos, yielded, queries, record, pre, op, calls, err>>

\* the body of get_projection's first loop for the pairs one rule yields:
\* st is [record, queries, calls, pre, op, err]
RECURSIVE FirstLoop(_, _, _)
FirstLoop(pairs, i, st) ==
    LET Called(call, out) ==
            [st EXCEPT !.record = out.ref, !.pre = st.record, !.op = call,
                       !.calls = Append(@, call), !.err = out.err]
        Body(path, value) ==
            IF HasQuestionMark(path)
            THEN [st EXCEPT !.queries = Append(@, <<path, value>>)]
            ELSE Called([name |-> "insert_value", path |-> path, value |-> value],
                        insert_value(path, value, st.record))
    IN  IF i > Len(pairs) \/ st.err # "" THEN st
        ELSE FirstLoop(pairs, i + 1, Body(pairs[i][1], pairs[i][2]))

\* JSONManifest.__iter__ advanced over one rule, get_projection handling what
\* it yields: a pair without "?" is inserted at once, one with "?" deferred
IterateRule ==
    /\ pc = "iterate"
    /\ pos < Len(rules)
    /\ \E pairs \in {RuleYield(rules[pos + 1], fdata, 1)} :
       \E st \in {FirstLoop(pairs, 1,
                      [record |-> record, queries |-> queries, calls |-> calls,
                       pre |-> pre, op |-> op, err |-> ""])} :
           /\ yielded' = yielded \o pairs
           /\ record' = st.record
           /\ queries' = st.queries
           /\ calls' = st.calls
           /\ pre' = st.pre
           /\ op' = st.op
           /\ err' = st.err
           /\ pc' = IF st.err # "" THEN "raised" ELSE "iterate"
    /\ pos' = pos + 1
    /\ UNCHANGED <<data, rules, fdata, qpos>>

\* the manifest is exhausted: get_projection goes on to its second loop
IterateDone ==
    /\ pc = "iterate"
    /\ pos = Len(rules)
    /\ pc' = "queries"
    /\ UNCHANGED <<data, rules, fdata, pos, qpos, yielded, queries, record, pre, op,
                   calls, err>>

\* get_projection's second loop: one deferred pair goes to insert_query
InsertDeferred ==
    /\ pc = "queries"
    /\ qpos < Len(queries)
    /\ \E path \in {queries[qpos + 1][1]}, value \in {queries[qpos + 1][2]} :
       \E out \in {insert_query(path, value, record)},
          call \in {[name |-> "insert_query", path |-> path, value |-> value]} :
           /\ record' = out.ref
           /\ pre' = record
           /\ op' = call
           /\ calls' = Append(calls, call)
           /\ err' = out.err
           /\ pc' = IF out.err # "" THEN "raised" ELSE "queries"
    /\ qpos' = qpos + 1
    /\ UNCHANGED <<data, rules, fdata, pos, yielded, queries>>

\* get_projection returns the record
ReturnRecord ==
    /\ pc = "queries"
    /\ qpos = Len(queries)
    /\ pc' = "returned"
    /\ UNCHANGED <<data, rules, fdata, pos, qpos, yielded, queries, record, pre, op,
                   calls, err>>

Next ==
    \/ ManifestInit
    \/ IterateRule
    \/ IterateDone
    \/ InsertDeferred
    \/ ReturnRecord

Spec == Init /\ [][Next]_vars

----------------------------------------------------------------------------
(* A document flattened and rebuilt with insert_value                      *)

InitRoundTrip ==
    /\ data \in RoundTripDocs
    /\ rules = <<>>
    /\ fdata = PNone
    /\ pos = 0
    /\ qpos = 0
    /\ yielded = <<>>
    /\ queries = <<>>
    /\ record = EmptyDict
    /\ pre = EmptyDict
    /\ op = NoCall
    /\ calls = <<>>
    /\ err = ""
    /\ pc = "rt_new"

\* list(JSONManifest.flatten(data))
FlattenData ==
    /\ pc = "rt_new"
    /\ yielded' = flatten(data)
    /\ pc' = "rt_insert"
    /\ UNCHANGED <<data, rules, fdata, pos, qpos, queries, record, pre, op, calls, err>>

\* insert_value(path, value, record) for the next flattened pair
RebuildStep ==
    /\ pc = "rt_insert"
    /\ pos < Len(yielded)
    /\ \E path \in {yielded[pos + 1][1]}, value \in {yielded[pos + 1][2]} :
       \E out \in {insert_value(path, value, record)},
          call \in {[name |-> "insert_value", path |-> path, value |-> value]} :
           /\ record' = out.ref
           /\ pre' = record
           /\ op' = call
           /\ calls' = Append(calls, call)
           /\ err' = out.err
           /\ pc' = IF out.err # "" THEN "rt_raised" ELSE "rt_insert"
    /\ pos' = pos + 1
    /\ UNCHANGED <<data, rules, fdata, qpos, yielded, queries>>

\* every flattened pair has been inserted
RebuildDone ==
    /\ pc = "rt_insert"
    /\ pos = Len(yielded)
    /\ pc' = "rt_done"
    /\ UNCHANGED <<data, rules, fdata, pos, qpos, yielded, queries, record, pre, op,
                   calls, err>>

NextRoundTrip ==
    \/ FlattenData
    \/ RebuildStep
    \/ RebuildDone

SpecRoundTrip == InitRoundTrip /\ [][NextRoundTrip]_vars

----------------------------------------------------------------------------
(* A caller of the class methods insert_value and insert_query             *)

InitCaller(records) ==
    /\ data = EmptyDict
    /\ rules = <<>>
    /\ fdata = PNone
    /\ pos = 0
    /\ qpos = 0
    /\ yielded = <<>>
    /\ queries = <<>>
    /\ record \in records
    /\ pre = EmptyDict
    /\ op = NoCall
    /\ calls = <<>>
    /\ err = ""
    /\ pc = "caller"

\* the caller's state after a call: the record is the one it passed, as the
\* call left it
Called(call, out) ==
    /\ record' = out.ref
    /\ pre' = record
    /\ op' = call
    /\ calls' = Append(calls, call)
    /\ err' = out.err
    /\ UNCHANGED <<data, rules, fdata, pos, qpos, yielded, queries, pc>>

InitValue == InitCaller(ValueRecords)

\* JSONFactory.insert_value(path, value, record)
CallInsertValue ==
    /\ pc = "caller"
    /\ Len(calls) < MaxCalls
    /\ \E path \in ValuePaths, value \in Scalars :
           Called([name |-> "insert_value", path |-> path, value |-> value],
                  insert_value(path, value, record))

NextValue == CallInsertValue

SpecValue == InitValue /\ [][NextValue]_vars

InitQuery == InitCaller(QueryRecords)

\* JSONFactory.insert_query(path, value, record)
CallInsertQuery ==
    /\ pc = "caller"
    /\ Len(calls) < MaxCalls
    /\ \E path \in QueryPaths, value \in Scalars :
           Called([name |-> "insert_query", path |-> path, value |-> value],
                  insert_query(path, value, record))

NextQuery == CallInsertQuery

SpecQuery == InitQuery /\ [][NextQuery]_vars

----------------------------------------------------------------------------
(* Properties of get_projection and of the iteration of a manifest          *)

\* the <<path, value>> of each call of a list of calls
AsPairs(cs) == [i \in 1..Len(cs) |-> <<cs[i].path, cs[i].value>>]

IsPrefix(a, b) == Len(a) <= Len(b) /\ a = SubSeq(b, 1, Len(a))

\* C1: in get_projection every pair whose target has no query component is
\* inserted by insert_value before any pair whose target has a query
\* component is inserted by insert_query, whatever the order of the rules;
\* the pairs of each kind are inserted in rule order
PhaseOrder ==
    LET valueCalls == SelectSeq(calls, LAMBDA c : c.name = "insert_value")
        queryCalls == SelectSeq(calls, LAMBDA c : c.name = "insert_query")
        plainPairs == SelectSeq(yielded, LAMBDA p : p[1] \notin QueryTargets)
        queryPairs == SelectSeq(yielded, LAMBDA p : p[1] \in QueryTargets)
    IN  /\ calls = valueCalls \o queryCalls
        /\ AsPairs(valueCalls) = plainPairs
        /\ IsPrefix(AsPairs(queryCalls), queryPairs)
        /\ queryCalls # <<>> => pos = Len(rules)
        /\ pc = "returned" => AsPairs(queryCalls) = queryPairs

\* a projection whose first rule has a query target and whose second has
\* none, both inserted: the second rule's pair went in first
PhaseOrderReached ==
    /\ pc = "returned"
    /\ Len(rules) = 2
    /\ rules[1].target \in QueryTargets
    /\ rules[2].target \in PlainTargets
    /\ Len(calls) = 2
    /\ calls[1].name = "insert_value"
    /\ calls[1].path = rules[2].target
    /\ calls[2].name = "insert_query"
    /\ calls[2].path = rules[1].target

\* C2: iterating a manifest yields, in rule order, exactly one pair
\* (rule.target, v) for each rule whose source equals a flattened path P of
\* the document, v a scalar at P; a rule whose source equals no flattened
\* path yields nothing, and rules with the same source each yield a pair
MatchingExact ==
    LET flat == flatten(data)
        Matched(r) == \E i \in 1..Len(flat) : flat[i][1] = r.source
        hits == SelectSeq(SubSeq(rules, 1, pos), Matched)
    IN  /\ Len(yielded) = Len(hits)
        /\ \A k \in 1..Len(hits) :
               /\ yielded[k][1] = hits[k].target
               /\ \E i \in 1..Len(flat) :
                      flat[i] = <<hits[k].source, yielded[k][2]>>

\* two rules with the same source and different targets have been iterated
\* and each has yielded its pair
MatchingExactReached ==
    /\ pos = 2
    /\ rules[1].source = rules[2].source
    /\ rules[1].target # rules[2].target
    /\ Len(yielded) = 2
    /\ yielded[1][1] = rules[1].target
    /\ yielded[2][1] = rules[2].target

\* the scalar leaves of a document
RECURSIVE LeafCount(_), LeafSum(_, _)
LeafCount(d) ==
    IF d.t \in {"dict", "list"} THEN LeafSum(d, 1) ELSE 1

LeafSum(d, i) ==
    IF i > Len(d.v) THEN 0
    ELSE LeafCount(IF d.t = "dict" THEN d.v[i][2] ELSE d.v[i]) + LeafSum(d, i + 1)

\* C8: flatten gives distinct scalar leaves distinct flat paths, so the flat
\* map built when the manifest is constructed has exactly one entry per
\* scalar leaf of the document, whatever keys the document has
FlattenUnique ==
    pc # "new" =>
        LET flat == flatten(data)
        IN  /\ \A i, j \in 1..Len(flat) : i # j => flat[i][1] # flat[j][1]
            /\ Len(fdata.v) = LeafCount(data)

----------------------------------------------------------------------------
(* Properties of flatten followed by insert_value                          *)

\* C3: starting from an empty record, insert_value(P, v, record) for every
\* pair (P, v) of flatten(doc) yields a record structurally equal to doc,
\* for a document without empty containers
RoundTrip ==
    pc \in {"rt_done", "rt_raised"} => err = "" /\ PyEq(record, data)

----------------------------------------------------------------------------
(* Properties of insert_value                                              *)

Max(a, b) == IF a >= b THEN a ELSE b

IndexKeys == {K_items, K_a}

\* C4: insert_value with the path $.key[i] on a record where key is absent or
\* holds an array leaves an array of length max(old length, i + 1) at key:
\* position i holds the value, every new position below i an empty object,
\* every other old position its old element
IndexPadding ==
    \A key \in IndexKeys, i \in 0..MaxIndex :
        ( /\ op.name = "insert_value"
          /\ op.path = PathOf(<<Indexed(key, i)>>)
          /\ Has(pre, key) => Get(pre, key).t = "list" )
        => LET old == IF Has(pre, key) THEN Get(pre, key).v ELSE <<>>
           IN  /\ err = ""
               /\ Has(record, key)
               /\ Get(record, key).t = "list"
               /\ Len(Get(record, key).v) = Max(Len(old), i + 1)
               /\ \A j \in 1..Len(Get(record, key).v) :
                      Get(record, key).v[j] =
                          IF j = i + 1 THEN op.value
                          ELSE IF j <= Len(old) THEN old[j]
                          ELSE EmptyDict

\* "$.items[3]" inserted into an empty record: items has length 4
IndexPaddingReached ==
    /\ op.name = "insert_value"
    /\ op.path = PathOf(<<Indexed(K_items, 3)>>)
    /\ pre = EmptyDict
    /\ Has(record, K_items)
    /\ Len(Get(record, K_items).v) = 4
    /\ Get(record, K_items).v[4] = op.value

\* the paths of plain keys insert_value is called with
PlainKeyLists == { <<K_a>>, <<K_a, K_b>>, <<K_out, K_b>> }

\* every key of ks but the last is absent from d or holds an object
RECURSIVE Walkable(_, _)
Walkable(d, ks) ==
    \/ Len(ks) <= 1
    \/ ~Has(d, ks[1])
    \/ /\ Get(d, ks[1]).t = "dict"
       /\ Walkable(Get(d, ks[1]), Tail(ks))

\* d with v assigned under the keys ks, objects created where a key is absent
RECURSIVE Assigned(_, _, _)
Assigned(d, ks, v) ==
    IF Len(ks) = 1 THEN Put(d, ks[1], v)
    ELSE Put(d, ks[1],
             Assigned(IF Has(d, ks[1]) THEN Get(d, ks[1]) ELSE EmptyDict,
                      Tail(ks), v))

\* C9: insert_value on a path of plain keys descends into the object at each
\* key, creating an empty object where the key is absent, assigns the value
\* at the last key and leaves every other key of the record unchanged:
\* insert_value("$.a.b", v, {}) returns {a: {b: v}}
PlainKeyInsert ==
    \A ks \in PlainKeyLists :
        ( /\ op.name = "insert_value"
          /\ op.path = PathOf(ks)
          /\ Walkable(pre, ks) )
        => err = "" /\ PyEq(record, Assigned(pre, ks, op.value))

----------------------------------------------------------------------------
(* Properties of insert_query                                              *)

\* every condition's field of the element equals the condition's literal
LiteralSatisfies(ele, conds) ==
    /\ ele.t = "dict"
    /\ \A c \in 1..Len(conds) :
           Has(ele, conds[c][1]) /\ Get(ele, conds[c][1]) = conds[c][2]

\* the positions of the elements that satisfy the conditions, in array order
MatchPositions(l, conds) ==
    SelectSeq([j \in 1..Len(l) |-> j], LAMBDA j : LiteralSatisfies(l[j], conds))

\* an element pre-populated with the condition fields
CondFields(conds) == DictOf(conds)

\* the element after the assignment: the value itself when the query segment
\* is the last one, the element with val assigned otherwise
Updated(ele, d, value) ==
    IF d.tail = <<>> THEN value ELSE Put(ele, K_val, value)

\* the call was insert_query with the path of d on a record where tags is
\* absent or an array of objects
QueryCalled(d) ==
    /\ op.name = "insert_query"
    /\ op.path = QueryPathOf(d)
    /\ Has(pre, K_tags) =>
           /\ Get(pre, K_tags).t = "list"
           /\ \A j \in 1..Len(Get(pre, K_tags).v) : Get(pre, K_tags).v[j].t = "dict"

OldTags == IF Has(pre, K_tags) THEN Get(pre, K_tags).v ELSE <<>>

NewTags == IF Has(record, K_tags) /\ Get(record, K_tags).t = "list"
           THEN Get(record, K_tags).v ELSE <<>>

\* a query without an index: every element satisfying the conditions is
\* updated and no other; when none satisfies them one element with the
\* condition fields is appended and updated
BroadcastOn(d) ==
    LET hit == MatchPositions(OldTags, d.conds)
    IN  /\ err = ""
        /\ IF hit # <<>>
           THEN /\ Len(NewTags) = Len(OldTags)
                /\ \A j \in 1..Len(OldTags) :
                       PyEq(NewTags[j],
                            IF LiteralSatisfies(OldTags[j], d.conds)
                            THEN Updated(OldTags[j], d, op.value)
                            ELSE OldTags[j])
           ELSE /\ Len(NewTags) = Len(OldTags) + 1
                /\ \A j \in 1..Len(OldTags) : PyEq(NewTags[j], OldTags[j])
                /\ PyEq(NewTags[Len(NewTags)],
                        Updated(CondFields(d.conds), d, op.value))

\* a query with the index d.index: the element updated is the one at that
\* place among those satisfying the conditions; when there are too few,
\* elements with the condition fields are appended and the last is updated
IndexedOn(d) ==
    LET hit == MatchPositions(OldTags, d.conds)
        short == d.index + 1 - Len(hit)
    IN  /\ err = ""
        /\ IF short <= 0
           THEN /\ Len(NewTags) = Len(OldTags)
                /\ \A j \in 1..Len(OldTags) :
                       PyEq(NewTags[j],
                            IF j = hit[d.index + 1]
                            THEN Updated(OldTags[j], d, op.value)
                            ELSE OldTags[j])
           ELSE /\ Len(NewTags) = Len(OldTags) + short
                /\ \A j \in 1..(Len(NewTags) - 1) :
                       PyEq(NewTags[j],
                            IF j <= Len(OldTags) THEN OldTags[j]
                            ELSE CondFields(d.conds))
                /\ PyEq(NewTags[Len(NewTags)],
                        Updated(CondFields(d.conds), d, op.value))

\* C5: insert_query on a segment with a query and no index applies the
\* assignment to every element of record[key] that satisfies all the
\* conditions and to no element that fails one; when none satisfies them,
\* exactly one element pre-populated with the condition fields is appended
\* and it alone is updated
QueryBroadcast ==
    \A d \in QueryDescs : (d.index = -1 /\ QueryCalled(d)) => BroadcastOn(d)

\* C6: insert_query on a segment with a query and an index i updates exactly
\* one element, the i-th in array order among those satisfying all the
\* conditions; when fewer than i + 1 satisfy them, elements pre-populated
\* with the condition fields are appended until i + 1 do, and the last one
\* appended is the target
QueryWithIndex ==
    \A d \in QueryDescs : (d.index >= 0 /\ QueryCalled(d)) => IndexedOn(d)

\* C7: a path with a part that matches no form of the grammar makes
\* insert_query report an error and insert nothing; it never acts on the
\* segments that did match
ParseAllOrNothing ==
    (op.name = "insert_query" /\ op.path \in MalformedPaths)
        => err # "" /\ record = pre

\* C10: the matched positions are those of the elements whose field equals
\* each condition's literal value, for a quoted string, an integer, true,
\* false and null: when an element holds the integer 1 under n, the query
\* @.n==1 updates it and appends no element
LiteralMatching ==
    \A d \in QueryDescs :
        ( /\ QueryCalled(d)
          /\ Len(MatchPositions(OldTags, d.conds)) > Max(d.index, 0) )
        => /\ err = ""
           /\ Len(NewTags) = Len(OldTags)
           /\ \E j \in 1..Len(OldTags) :
                  /\ LiteralSatisfies(OldTags[j], d.conds)
                  /\ PyEq(NewTags[j], Updated(OldTags[j], d, op.value))

\* the conditions whose literals are all quoted strings
QuotedConds == { TypeIsA }

\* the broadcast of a query whose literals are quoted strings
QuotedBroadcast ==
    \A d \in QueryDescs :
        (d.conds \in QuotedConds /\ d.index = -1 /\ QueryCalled(d)) => BroadcastOn(d)

\* the indexed update of a query whose literals are quoted strings
QuotedWithIndex ==
    \A d \in QueryDescs :
        (d.conds \in QuotedConds /\ d.index >= 0 /\ QueryCalled(d)) => IndexedOn(d)

====
